---- MODULE Spec2Model ----
(***************************************************************************)
(* The state-graph orchestrator of src/v3_state_graph: the AgentState      *)
(* container (state.py), the five node functions (nodes.py), the six       *)
(* decision functions (decisions.py) and the StateGraph driver (graph.py). *)
(*                                                                         *)
(* Abstractions.  Texts are kept by the attributes the code reads: a log   *)
(* entry by its message kind, a summary by its length, its number of       *)
(* non-empty lines and whether the topic occurs in it, a language-model    *)
(* answer of the filter by the markers it contains and the integers        *)
(* re.findall extracts from it.  Floats are exact decimals: quality_score  *)
(* is kept in tenths, and filter_threshold, which is 0.7 * 0.8^k, is kept  *)
(* as the exponent k.  logs is kept as the number of entries and whether   *)
(* the step-ceiling warning is among them; the runs of the tests under     *)
(* __main__ (logs.listed) also keep the list of entries itself.            *)
(***************************************************************************)
EXTENDS Integers, Sequences, FiniteSets, TLC

VARIABLES
    state,          \* the AgentState object the driver owns
    phase,          \* "created" (before run), "running", "returned";
                    \* "unit", "helpers" in the tests under __main__
    current_node,   \* StateGraph.run's local current_node
    step_count,     \* StateGraph.run's local step_count; in the tests under
                    \* __main__, the number of calls made so far
    last_node,      \* history: the node the last iteration executed
    visits,         \* history: how many times each node has executed
    guards,         \* history: the decisions evaluated by the last iteration
    slept,          \* history: seconds the last executed search_node slept
    filter_faults,  \* history: filter executions whose model call failed
    all_empty,      \* history: every search call so far returned an empty list
    last_search     \* history: what the latest search_web call returned

vars == <<state, phase, current_node, step_count, last_node, visits, guards, slept,
          filter_faults, all_empty, last_search>>

----------------------------------------------------------------------------
(* Bounds of the model *)

\* the search provider returns at most this many items
MaxItems == 3
\* the filter's model answer holds at most this many integers
MaxAnswerLen == 1
\* at most this many filter executions of a run see the model call fail
MaxFilterFaults == 1
\* in the node tests, the filter's model answer holds at most this many integers
UnitAnswerLen == 3
\* the test of the AgentState helpers makes at most this many calls
MaxHelperCalls == 4

(* Program constants *)

max_steps == 50
SearchRetryLimit == 3
SummaryRetryLimit == 2
MinFilteredCount == 3
MinQualityTenths == 7
DefaultMaxResults == 10
ErrorReportItems == 3

----------------------------------------------------------------------------
(* Inputs *)

\* the entry point's arguments: an empty and a non-empty topic, a
\* non-positive and a positive result count
Topics == {"", "AI"}
MaxResultsInputs == {0, DefaultMaxResults}

Min(a, b) == IF a <= b THEN a ELSE b

\* all sequences over S of length at most n
RECURSIVE SeqsUpTo(_, _)
SeqsUpTo(S, n) ==
    IF n = 0 THEN {<<>>}
    ELSE LET shorter == SeqsUpTo(S, n - 1)
         IN  shorter \cup {Append(q, x) : q \in {r \in shorter : Len(r) = n - 1}, x \in S}

\* the items of the provider's catalogue, named by their rank
Catalogue(n) == [i \in 1..n |-> i]

----------------------------------------------------------------------------
(* state.py: AgentState *)

NoError == "None"
EmptySummary == [kind |-> "empty", length |-> 0, paragraphs |-> 0, has_topic |-> FALSE]
EmptyReport ==
    [kind |-> "empty", topic |-> "", error_text |-> NoError, refs |-> <<>>,
     source_count |-> 0, quality |-> 0, body |-> EmptySummary,
     n_search |-> 0, n_filtered |-> 0, search_retries |-> 0,
     summary_retries |-> 0, n_logs |-> 0]

AgentState(topic, max_results) ==
    [topic |-> topic,
     max_results |-> max_results,
     current_step |-> "start",
     search_results |-> <<>>,
     search_status |-> "pending",
     search_retry_count |-> 0,
     search_expanded |-> FALSE,
     filtered_results |-> <<>>,
     filter_threshold |-> 0,
     filter_lowered |-> FALSE,
     summary |-> EmptySummary,
     summary_retry_count |-> 0,
     quality_score |-> 0,
     final_report |-> EmptyReport,
     error |-> NoError,
     logs |-> [count |-> 0, warning |-> FALSE, listed |-> FALSE, entries |-> <<>>]]

\* the log that holds the latest entry alone
add_log_overwrites(s, message) ==
    [s EXCEPT !.logs = [count |-> @.count + 1,
                        warning |-> @.warning \/ message = "ceiling_warning",
                        listed |-> @.listed,
                        entries |-> IF @.listed THEN <<message>> ELSE @.entries]]

add_log(s, message) ==
    [s EXCEPT !.logs = [count |-> @.count + 1,
                        warning |-> @.warning \/ message = "ceiling_warning",
                        listed |-> @.listed,
                        entries |-> IF @.listed THEN Append(@.entries, message)
                                    ELSE @.entries]]

\* the limit test with > for >=
is_search_retry_limit_reached_strict(s) == s.search_retry_count > SearchRetryLimit

\* the limit test counting attempts instead of retries
is_search_retry_limit_reached_early(s) == s.search_retry_count + 1 >= SearchRetryLimit

is_search_retry_limit_reached(s) == s.search_retry_count >= SearchRetryLimit

\* the limit test with > for >=
is_summary_retry_limit_reached_strict(s) == s.summary_retry_count > SummaryRetryLimit

is_summary_retry_limit_reached(s) == s.summary_retry_count >= SummaryRetryLimit

\* the test that finds any number of filtered results enough
has_enough_filtered_results_any(s, min_count) == Len(s.filtered_results) >= 0

has_enough_filtered_results(s, min_count) == Len(s.filtered_results) >= min_count

\* the quality test with > for >=
is_quality_acceptable_strict(s, min_score) == s.quality_score > min_score

is_quality_acceptable(s, min_score) == s.quality_score >= min_score

increment_search_retry(s) ==
    add_log([s EXCEPT !.search_retry_count = @ + 1], "search_retry")

increment_summary_retry(s) ==
    add_log([s EXCEPT !.summary_retry_count = @ + 1], "summary_retry")

\* the expansion that also gives the search its retries back
expand_search_resets_retries(s) ==
    add_log([s EXCEPT !.max_results = 2 * @, !.search_expanded = TRUE,
                      !.search_retry_count = 0], "expanded")

\* the expansion that sets the flag and leaves max_results alone
expand_search_flag_only(s) ==
    add_log([s EXCEPT !.search_expanded = TRUE], "expanded")

expand_search(s) ==
    add_log([s EXCEPT !.max_results = @ * 2, !.search_expanded = TRUE], "expanded")

\* the lowering that divides by 0.8
lower_filter_threshold_raises(s) ==
    add_log([s EXCEPT !.filter_threshold = @ - 1, !.filter_lowered = TRUE], "lowered")

\* the lowering that computes the product and does not store it
lower_filter_threshold_not_stored(s) ==
    add_log([s EXCEPT !.filter_lowered = TRUE], "lowered")

lower_filter_threshold(s) ==
    add_log([s EXCEPT !.filter_threshold = @ + 1, !.filter_lowered = TRUE], "lowered")

set_error(s, error_message) ==
    add_log([s EXCEPT !.error = error_message], "error")

----------------------------------------------------------------------------
(* The external collaborators, as the sets of outcomes a call can have *)

\* no search_web call has been made yet
NoCall == [kind |-> "not_called", items |-> <<>>]

\* tools.search_web: raises on an empty query or a non-positive count;
\* otherwise the provider raises, returns None, or returns a list
search_web(query, max_results) ==
    IF query = "" \/ max_results <= 0
    THEN {[kind |-> "exception", items |-> <<>>]}
    ELSE {[kind |-> "exception", items |-> <<>>], [kind |-> "none", items |-> <<>>]}
         \cup {[kind |-> "items", items |-> Catalogue(n)] : n \in 0..MaxItems}

\* tools.call_llm for the filter prompt: raises, returns None, or returns a
\* text that holds the marker for "all", the marker for "none", and integers
FilterAnswers ==
    {[kind |-> "exception", all |-> FALSE, none |-> FALSE, nums |-> <<>>],
     [kind |-> "none", all |-> FALSE, none |-> FALSE, nums |-> <<>>]}
    \cup {[kind |-> "text", all |-> FALSE, none |-> FALSE, nums |-> q] :
            q \in SeqsUpTo(0..(MaxItems + 1), MaxAnswerLen)}
    \cup {[kind |-> "text", all |-> a, none |-> n, nums |-> q] :
            a \in BOOLEAN, n \in BOOLEAN, q \in {<<>>, <<1>>}}

\* the filter answers the node tests are explored with
UnitFilterAnswers ==
    FilterAnswers
    \cup {[kind |-> "text", all |-> FALSE, none |-> FALSE, nums |-> q] :
            q \in SeqsUpTo(0..(MaxItems + 1), UnitAnswerLen)}

\* a generated summary after strip(): its length, its number of non-empty
\* lines, and whether the topic string occurs in it
Text(len, paras, topical) ==
    [kind |-> "text", length |-> len, paragraphs |-> paras, has_topic |-> topical]

SummaryTexts ==
    {Text(0, 0, FALSE)} \cup
    {Text(len, p, t) : len \in {99, 100, 199, 200, 299, 300}, p \in 1..3, t \in BOOLEAN}

\* the summaries the driver's runs are explored with
DriverSummaryTexts ==
    {Text(300, 3, TRUE), Text(300, 2, FALSE), Text(200, 3, FALSE)}

SummaryFailures ==
    {[kind |-> "exception", length |-> 0, paragraphs |-> 0, has_topic |-> FALSE],
     [kind |-> "none", length |-> 0, paragraphs |-> 0, has_topic |-> FALSE]}

----------------------------------------------------------------------------
(* nodes.py *)

\* the exponential backoff search_node sleeps before a retried call
\* the backoff growing linearly, 2 * k for 2 ^ k
backoff_wait_linear(s) ==
    IF s.search_retry_count > 0 THEN 2 * s.search_retry_count ELSE 0

backoff_wait(s) ==
    IF s.search_retry_count > 0 THEN 2 ^ s.search_retry_count ELSE 0

\* the search node that records no error for an empty result
search_node_no_error(s, results) ==
    LET s1 == [add_log(s, "enter_search") EXCEPT !.current_step = "search"]
        s2 == IF s1.search_retry_count > 0 THEN add_log(s1, "backoff") ELSE s1
        s3 == add_log(s2, "call_search_web")
    IN  IF results.kind = "exception"
        THEN add_log(set_error([s3 EXCEPT !.search_status = "failed"],
                               "search_exception"), "search_exception")
        ELSE IF results.kind = "none" \/ Len(results.items) = 0
        THEN add_log([s3 EXCEPT !.search_status = "failed"], "search_no_results")
        ELSE add_log([s3 EXCEPT !.search_results = results.items,
                                !.search_status = "success"], "search_ok")

\* the search node that clears error when the call succeeds
search_node_clears_error(s, results) ==
    LET s1 == [add_log(s, "enter_search") EXCEPT !.current_step = "search"]
        s2 == IF s1.search_retry_count > 0 THEN add_log(s1, "backoff") ELSE s1
        s3 == add_log(s2, "call_search_web")
    IN  IF results.kind = "exception"
        THEN add_log(set_error([s3 EXCEPT !.search_status = "failed"],
                               "search_exception"), "search_exception")
        ELSE IF results.kind = "none" \/ Len(results.items) = 0
        THEN add_log(set_error([s3 EXCEPT !.search_status = "failed"],
                               "search_empty"), "search_no_results")
        ELSE add_log([s3 EXCEPT !.search_results = results.items,
                                !.search_status = "success",
                                !.error = NoError], "search_ok")

\* the search node that empties search_results when the call fails
search_node_drops_results(s, results) ==
    LET s1 == [add_log(s, "enter_search") EXCEPT !.current_step = "search"]
        s2 == IF s1.search_retry_count > 0 THEN add_log(s1, "backoff") ELSE s1
        s3 == add_log(s2, "call_search_web")
    IN  IF results.kind = "exception"
        THEN add_log(set_error([s3 EXCEPT !.search_status = "failed",
                                          !.search_results = <<>>],
                               "search_exception"), "search_exception")
        ELSE IF results.kind = "none" \/ Len(results.items) = 0
        THEN add_log(set_error([s3 EXCEPT !.search_status = "failed",
                                          !.search_results = <<>>],
                               "search_empty"), "search_no_results")
        ELSE add_log([s3 EXCEPT !.search_results = results.items,
                                !.search_status = "success"], "search_ok")

\* the search node that extends search_results instead of replacing it
search_node_appends(s, results) ==
    LET s1 == [add_log(s, "enter_search") EXCEPT !.current_step = "search"]
        s2 == IF s1.search_retry_count > 0 THEN add_log(s1, "backoff") ELSE s1
        s3 == add_log(s2, "call_search_web")
    IN  IF results.kind = "exception"
        THEN add_log(set_error([s3 EXCEPT !.search_status = "failed"],
                               "search_exception"), "search_exception")
        ELSE IF results.kind = "none" \/ Len(results.items) = 0
        THEN add_log(set_error([s3 EXCEPT !.search_status = "failed"],
                               "search_empty"), "search_no_results")
        ELSE add_log([s3 EXCEPT !.search_results = s3.search_results \o results.items,
                                !.search_status = "success"], "search_ok")

search_node(s, results) ==
    LET s1 == [add_log(s, "enter_search") EXCEPT !.current_step = "search"]
        s2 == IF s1.search_retry_count > 0 THEN add_log(s1, "backoff") ELSE s1
        s3 == add_log(s2, "call_search_web")
    IN  IF results.kind = "exception"
        THEN add_log(set_error([s3 EXCEPT !.search_status = "failed"],
                               "search_exception"), "search_exception")
        ELSE IF results.kind = "none" \/ Len(results.items) = 0
        THEN add_log(set_error([s3 EXCEPT !.search_status = "failed"],
                               "search_empty"), "search_no_results")
        ELSE add_log([s3 EXCEPT !.search_results = results.items,
                                !.search_status = "success"], "search_ok")

\* the 0-based indices filter_node takes from the model's answer
relevant_indices(llm_result, n) ==
    IF llm_result.all THEN [i \in 1..n |-> i - 1]
    ELSE IF llm_result.none THEN <<>>
    ELSE LET kept == SelectSeq(llm_result.nums, LAMBDA x : x <= n)
         IN  [i \in 1..Len(kept) |-> kept[i] - 1]

\* the selection that returns the indices in place of the items they name
select_results_indices(search_results, indices) ==
    LET n == Len(search_results)
    IN  SelectSeq(indices, LAMBDA i : 0 <= i /\ i < n)

select_results(search_results, indices) ==
    LET n == Len(search_results)
        ok == SelectSeq(indices, LAMBDA i : 0 <= i /\ i < n)
    IN  [j \in 1..Len(ok) |-> search_results[ok[j] + 1]]

\* the filter that keeps nothing when the model call fails
filter_node_fail_closed(s, llm_result) ==
    LET s1 == [add_log(s, "enter_filter") EXCEPT !.current_step = "filter"]
        s2 == add_log(s1, "call_llm_filter")
    IN  IF Len(s1.search_results) = 0
        THEN [add_log(s1, "filter_skipped") EXCEPT !.filtered_results = <<>>]
        ELSE IF llm_result.kind = "none"
        THEN [add_log(s2, "llm_failed") EXCEPT !.filtered_results = <<>>]
        ELSE IF llm_result.kind = "exception"
        THEN [add_log(s2, "filter_exception") EXCEPT !.filtered_results = <<>>]
        ELSE add_log(
               [add_log(s2, "llm_returned") EXCEPT !.filtered_results =
                   select_results(s2.search_results,
                       relevant_indices(llm_result, Len(s2.search_results)))],
               "filter_done")

\* the filter that keeps every search result once the threshold was lowered
filter_node_lenient(s, llm_result) ==
    LET s1 == [add_log(s, "enter_filter") EXCEPT !.current_step = "filter"]
        s2 == add_log(s1, "call_llm_filter")
    IN  IF Len(s1.search_results) = 0
        THEN [add_log(s1, "filter_skipped") EXCEPT !.filtered_results = <<>>]
        ELSE IF llm_result.kind = "none"
        THEN [add_log(s2, "llm_failed") EXCEPT !.filtered_results = s2.search_results]
        ELSE IF llm_result.kind = "exception"
        THEN [add_log(s2, "filter_exception") EXCEPT
                  !.filtered_results = s2.search_results]
        ELSE add_log(
               [add_log(s2, "llm_returned") EXCEPT !.filtered_results =
                   IF s2.filter_threshold > 0 THEN s2.search_results
                   ELSE select_results(s2.search_results,
                            relevant_indices(llm_result, Len(s2.search_results)))],
               "filter_done")

filter_node(s, llm_result) ==
    LET s1 == [add_log(s, "enter_filter") EXCEPT !.current_step = "filter"]
        s2 == add_log(s1, "call_llm_filter")
    IN  IF Len(s1.search_results) = 0
        THEN [add_log(s1, "filter_skipped") EXCEPT !.filtered_results = <<>>]
        ELSE IF llm_result.kind = "none"
        THEN [add_log(s2, "llm_failed") EXCEPT !.filtered_results = s2.search_results]
        ELSE IF llm_result.kind = "exception"
        THEN [add_log(s2, "filter_exception") EXCEPT
                  !.filtered_results = s2.search_results]
        ELSE add_log(
               [add_log(s2, "llm_returned") EXCEPT !.filtered_results =
                   select_results(s2.search_results,
                       relevant_indices(llm_result, Len(s2.search_results)))],
               "filter_done")

\* the length score that gives 100 characters the points of 200
length_score_generous(length) ==
    IF length >= 300 THEN 5 ELSE IF length >= 100 THEN 3 ELSE 0

length_score(length) ==
    IF length >= 300 THEN 5 ELSE IF length >= 200 THEN 3
    ELSE IF length >= 100 THEN 1 ELSE 0

structure_score(paragraphs) ==
    IF paragraphs >= 3 THEN 3 ELSE IF paragraphs >= 2 THEN 2 ELSE 0

\* Python's  topic in summary : the empty string occurs in every string
relevance_score(topic, summary) ==
    IF topic = "" \/ summary.has_topic THEN 2 ELSE 0

\* the score with the length tiers accumulated and the cap left out
evaluate_quality_uncapped(topic, summary) ==
    (IF summary.length >= 300 THEN 5 ELSE 0) + (IF summary.length >= 200 THEN 3 ELSE 0)
      + (IF summary.length >= 100 THEN 1 ELSE 0)
      + structure_score(summary.paragraphs) + relevance_score(topic, summary)

evaluate_quality(topic, summary) ==
    Min(length_score(summary.length) + structure_score(summary.paragraphs)
          + relevance_score(topic, summary), 10)

Placeholder(name) ==
    [kind |-> name, length |-> 8, paragraphs |-> 1, has_topic |-> FALSE]

summarize_node(s, llm_result) ==
    LET s1 == [add_log(s, "enter_summarize") EXCEPT !.current_step = "summarize"]
        s2 == add_log(s1, "call_llm_summarize")
    IN  IF Len(s1.filtered_results) = 0
        THEN [add_log(s1, "no_filtered_results") EXCEPT
                  !.summary = Placeholder("no_information"), !.quality_score = 0]
        ELSE IF llm_result.kind = "none"
        THEN [add_log(s2, "llm_failed") EXCEPT
                  !.summary = Placeholder("summary_failed"), !.quality_score = 0]
        ELSE IF llm_result.kind = "exception"
        THEN [add_log(s2, "summarize_exception") EXCEPT
                  !.summary = Placeholder("summary_error"), !.quality_score = 0]
        ELSE add_log([s2 EXCEPT !.summary = llm_result,
                                !.quality_score = evaluate_quality(s2.topic, llm_result)],
                     "summary_done")

\* the report whose reference list is taken from search_results
format_node_all_sources(s) ==
    LET s1 == [add_log(s, "enter_format") EXCEPT !.current_step = "format"]
        report == [kind |-> "report",
                   topic |-> s1.topic,
                   error_text |-> NoError,
                   refs |-> s1.search_results,
                   source_count |-> Len(s1.search_results),
                   quality |-> s1.quality_score,
                   body |-> s1.summary,
                   n_search |-> Len(s1.search_results),
                   n_filtered |-> Len(s1.filtered_results),
                   search_retries |-> s1.search_retry_count,
                   summary_retries |-> s1.summary_retry_count,
                   n_logs |-> s1.logs.count]
    IN  add_log([s1 EXCEPT !.final_report = report], "report_done")

format_node(s) ==
    LET s1 == [add_log(s, "enter_format") EXCEPT !.current_step = "format"]
        report == [kind |-> "report",
                   topic |-> s1.topic,
                   error_text |-> NoError,
                   refs |-> s1.filtered_results,
                   source_count |-> Len(s1.filtered_results),
                   quality |-> s1.quality_score,
                   body |-> s1.summary,
                   n_search |-> Len(s1.search_results),
                   n_filtered |-> Len(s1.filtered_results),
                   search_retries |-> s1.search_retry_count,
                   summary_retries |-> s1.summary_retry_count,
                   n_logs |-> s1.logs.count]
    IN  add_log([s1 EXCEPT !.final_report = report], "report_done")

error_node(s) ==
    LET s1 == [add_log(s, "enter_error") EXCEPT !.current_step = "error"]
        report == [kind |-> "failure",
                   topic |-> s1.topic,
                   error_text |-> IF s1.error # NoError THEN s1.error ELSE "unknown_error",
                   refs |-> SubSeq(s1.search_results, 1,
                                   Min(ErrorReportItems, Len(s1.search_results))),
                   source_count |-> 0,
                   quality |-> 0,
                   body |-> EmptySummary,
                   n_search |-> Len(s1.search_results),
                   n_filtered |-> Len(s1.filtered_results),
                   search_retries |-> s1.search_retry_count,
                   summary_retries |-> s1.summary_retry_count,
                   n_logs |-> 0]
    IN  add_log([s1 EXCEPT !.final_report = report], "error_report_done")

----------------------------------------------------------------------------
(* decisions.py: each decision yields the next name and the state it leaves *)

decide_after_search(s) ==
    IF s.search_status = "success"
    THEN [next |-> "filter", state |-> add_log(s, "decide_search_ok")]
    ELSE [next |-> "retry", state |-> add_log(s, "decide_search_failed")]

decide_retry(s) ==
    IF is_search_retry_limit_reached(s)
    THEN [next |-> "error", state |-> add_log(s, "decide_retry_limit")]
    ELSE [next |-> "search",
          state |-> increment_search_retry(add_log(s, "decide_retry"))]

decide_after_filter(s) ==
    IF has_enough_filtered_results(s, MinFilteredCount)
    THEN [next |-> "summarize", state |-> add_log(s, "decide_filter_enough")]
    ELSE [next |-> "expand", state |-> add_log(s, "decide_filter_short")]

\* the expand decision that never reads search_expanded
decide_expand_always(s) ==
    [next |-> "search", state |-> expand_search(add_log(s, "decide_expand"))]

decide_expand(s) ==
    IF ~s.search_expanded
    THEN [next |-> "search", state |-> expand_search(add_log(s, "decide_expand"))]
    ELSE [next |-> "filter",
          state |-> lower_filter_threshold(add_log(s, "decide_lower"))]

decide_after_summarize(s) ==
    IF is_quality_acceptable(s, MinQualityTenths)
    THEN [next |-> "format", state |-> add_log(s, "decide_quality_ok")]
    ELSE [next |-> "regenerate", state |-> add_log(s, "decide_quality_low")]

\* the regenerate decision that goes back to Filter
decide_regenerate_refilters(s) ==
    IF is_summary_retry_limit_reached(s)
    THEN [next |-> "format", state |-> add_log(s, "decide_regenerate_limit")]
    ELSE [next |-> "filter",
          state |-> increment_summary_retry(add_log(s, "decide_regenerate"))]

decide_regenerate(s) ==
    IF is_summary_retry_limit_reached(s)
    THEN [next |-> "format", state |-> add_log(s, "decide_regenerate_limit")]
    ELSE [next |-> "summarize",
          state |-> increment_summary_retry(add_log(s, "decide_regenerate"))]

----------------------------------------------------------------------------
(* graph.py: StateGraph *)

Nodes == {"search", "filter", "summarize", "format", "error"}

\* a primary decision followed, when it names one, by the secondary decision
Chain(first, name, secondName, second) ==
    IF first.next = secondName
    THEN [next |-> second.next, state |-> second.state, guards |-> <<name, secondName>>]
    ELSE [next |-> first.next, state |-> first.state, guards |-> <<name>>]

\* the dispatch with the format branch falling into the summarize branch
get_next_node_format_decides(s, node) ==
    IF node = "search"
    THEN LET d == decide_after_search(s)
         IN  Chain(d, "after_search", "retry", decide_retry(d.state))
    ELSE IF node = "filter"
    THEN LET d == decide_after_filter(s)
         IN  Chain(d, "after_filter", "expand", decide_expand(d.state))
    ELSE IF node = "summarize" \/ node = "format"
    THEN LET d == decide_after_summarize(s)
         IN  Chain(d, "after_summarize", "regenerate", decide_regenerate(d.state))
    ELSE [next |-> "end", state |-> s, guards |-> <<>>]

get_next_node(s, node) ==
    IF node = "search"
    THEN LET d == decide_after_search(s)
         IN  Chain(d, "after_search", "retry", decide_retry(d.state))
    ELSE IF node = "filter"
    THEN LET d == decide_after_filter(s)
         IN  Chain(d, "after_filter", "expand", decide_expand(d.state))
    ELSE IF node = "summarize"
    THEN LET d == decide_after_summarize(s)
         IN  Chain(d, "after_summarize", "regenerate", decide_regenerate(d.state))
    ELSE [next |-> "end", state |-> s, guards |-> <<>>]

\* the loop condition with <= for <
LoopingInclusive ==
    phase = "running" /\ current_node # "end" /\ step_count <= max_steps

\* the loop condition of StateGraph.run
Looping == phase = "running" /\ current_node # "end" /\ step_count < max_steps

\* what one loop iteration does around the node: count, log, decide
Iterate(node, after) ==
    LET d == get_next_node(after, node)
    IN  /\ state' = d.state
        /\ current_node' = d.next
        /\ guards' = d.guards
        /\ step_count' = step_count + 1
        /\ last_node' = node
        /\ visits' = [visits EXCEPT ![node] = @ + 1]
        /\ UNCHANGED phase

\* state_graph_agent builds the state; run has not started
Init ==
    /\ state \in {AgentState(t, m) : t \in Topics, m \in MaxResultsInputs}
    /\ phase = "created"
    /\ current_node = "unset"
    /\ step_count = 0
    /\ last_node = "none"
    /\ visits = [n \in Nodes |-> 0]
    /\ guards = <<>>
    /\ slept = 0
    /\ filter_faults = 0
    /\ all_empty = TRUE
    /\ last_search = NoCall

Start ==
    /\ phase = "created"
    /\ phase' = "running"
    /\ current_node' = "search"
    /\ step_count' = 0
    /\ state' = add_log(add_log(add_log(state, "rule"), "run_started"), "rule")
    /\ UNCHANGED <<last_node, visits, guards, slept, filter_faults, all_empty, last_search>>

SearchStep ==
    /\ Looping
    /\ current_node = "search"
    /\ \E results \in search_web(state.topic, state.max_results) :
          /\ Iterate("search", search_node(add_log(state, "step_header"), results))
          /\ all_empty' = (all_empty /\ results.kind = "items" /\ Len(results.items) = 0)
          /\ last_search' = results
    /\ slept' = backoff_wait(state)
    /\ UNCHANGED filter_faults

FilterStep ==
    /\ Looping
    /\ current_node = "filter"
    /\ \E llm_result \in FilterAnswers :
          LET fault == llm_result.kind # "text" /\ Len(state.search_results) > 0
          IN  /\ fault => filter_faults < MaxFilterFaults
              /\ filter_faults' = IF fault THEN filter_faults + 1 ELSE filter_faults
              /\ Iterate("filter", filter_node(add_log(state, "step_header"), llm_result))
    /\ UNCHANGED <<slept, all_empty, last_search>>

SummarizeStep ==
    /\ Looping
    /\ current_node = "summarize"
    /\ \E llm_result \in DriverSummaryTexts \cup SummaryFailures :
          Iterate("summarize", summarize_node(add_log(state, "step_header"), llm_result))
    /\ UNCHANGED <<slept, filter_faults, all_empty, last_search>>

FormatStep ==
    /\ Looping
    /\ current_node = "format"
    /\ Iterate("format", format_node(add_log(state, "step_header")))
    /\ UNCHANGED <<slept, filter_faults, all_empty, last_search>>

ErrorStep ==
    /\ Looping
    /\ current_node = "error"
    /\ Iterate("error", error_node(add_log(state, "step_header")))
    /\ UNCHANGED <<slept, filter_faults, all_empty, last_search>>

\* the return that logs no ceiling warning
Finish_without_warning ==
    /\ phase = "running"
    /\ ~Looping
    /\ state' = add_log(add_log(add_log(state, "rule"), "run_finished"), "rule")
    /\ phase' = "returned"
    /\ UNCHANGED <<current_node, step_count, last_node, visits, guards, slept, filter_faults,
                   all_empty, last_search>>

\* the loop has ended: the ceiling warning, the closing entries, the return
Finish ==
    /\ phase = "running"
    /\ ~Looping
    /\ LET s1 == IF step_count >= max_steps
                 THEN add_log(state, "ceiling_warning") ELSE state
       IN  state' = add_log(add_log(add_log(s1, "rule"), "run_finished"), "rule")
    /\ phase' = "returned"
    /\ UNCHANGED <<current_node, step_count, last_node, visits, guards, slept, filter_faults,
                   all_empty, last_search>>

Next ==
    \/ Start
    \/ SearchStep
    \/ FilterStep
    \/ SummarizeStep
    \/ FormatStep
    \/ ErrorStep
    \/ Finish

Spec == Init /\ [][Next]_vars

\* the loop runs on one thread and every call returns: a step that can be
\* taken is taken
FairSpec == Spec /\ WF_vars(Next)

----------------------------------------------------------------------------
(* nodes.py, the tests under __main__: the nodes called in pipeline order on *)
(* a fresh state, without the driver and its decisions                      *)

UnitInit ==
    /\ state \in {[AgentState(t, m) EXCEPT !.logs.listed = TRUE] :
                    t \in Topics, m \in MaxResultsInputs}
    /\ phase \in {"unit", "helpers"}
    /\ current_node = "search"
    /\ step_count = 0
    /\ last_node = "none"
    /\ visits = [n \in Nodes |-> 0]
    /\ guards = <<>>
    /\ slept = 0
    /\ filter_faults = 0
    /\ all_empty = TRUE
    /\ last_search = NoCall

\* the bookkeeping of one direct call of a node
Called(node, following) ==
    /\ current_node' = following
    /\ step_count' = step_count + 1
    /\ last_node' = node
    /\ visits' = [visits EXCEPT ![node] = @ + 1]
    /\ UNCHANGED <<phase, guards>>

UnitSearch ==
    /\ phase = "unit"
    /\ current_node = "search"
    /\ \E results \in search_web(state.topic, state.max_results) :
          /\ state' = search_node(state, results)
          /\ all_empty' = (all_empty /\ results.kind = "items" /\ Len(results.items) = 0)
          /\ last_search' = results
    /\ slept' = backoff_wait(state)
    /\ Called("search", "filter")
    /\ UNCHANGED filter_faults

UnitFilter ==
    /\ phase = "unit"
    /\ current_node = "filter"
    /\ \E llm_result \in UnitFilterAnswers :
          /\ state' = filter_node(state, llm_result)
          /\ filter_faults' =
                IF llm_result.kind # "text" /\ Len(state.search_results) > 0
                THEN filter_faults + 1 ELSE filter_faults
    /\ Called("filter", "summarize")
    /\ UNCHANGED <<slept, all_empty, last_search>>

UnitSummarize ==
    /\ phase = "unit"
    /\ current_node = "summarize"
    /\ \E llm_result \in SummaryTexts \cup SummaryFailures :
          state' = summarize_node(state, llm_result)
    /\ Called("summarize", "format")
    /\ UNCHANGED <<slept, filter_faults, all_empty, last_search>>

UnitFormat ==
    /\ phase = "unit"
    /\ current_node = "format"
    /\ state' = format_node(state)
    /\ Called("format", "end")
    /\ UNCHANGED <<slept, filter_faults, all_empty, last_search>>

(* state.py, the test under __main__: the helpers of AgentState called on a *)
(* fresh state, in any order and any number of times up to MaxHelperCalls   *)

\* the messages the driver logs itself
DriverMessages == {"step_header", "ceiling_warning", "run_finished"}

\* the bookkeeping of one direct call of a helper
HelperCalled ==
    /\ phase = "helpers"
    /\ step_count < MaxHelperCalls
    /\ step_count' = step_count + 1
    /\ UNCHANGED <<phase, current_node, last_node, visits, guards, slept, filter_faults,
                   all_empty, last_search>>

UnitIncrementSearchRetry == HelperCalled /\ state' = increment_search_retry(state)

UnitIncrementSummaryRetry == HelperCalled /\ state' = increment_summary_retry(state)

UnitExpandSearch == HelperCalled /\ state' = expand_search(state)

UnitLowerFilterThreshold == HelperCalled /\ state' = lower_filter_threshold(state)

UnitSetError == HelperCalled /\ state' = set_error(state, "test_error")

UnitAddLog == HelperCalled /\ \E message \in DriverMessages : state' = add_log(state, message)

UnitNext ==
    \/ UnitSearch
    \/ UnitFilter
    \/ UnitSummarize
    \/ UnitFormat
    \/ UnitIncrementSearchRetry
    \/ UnitIncrementSummaryRetry
    \/ UnitExpandSearch
    \/ UnitLowerFilterThreshold
    \/ UnitSetError
    \/ UnitAddLog

UnitSpec == UnitInit /\ [][UnitNext]_vars

----------------------------------------------------------------------------
(* Properties *)

ValidInput == state.topic # "" /\ state.max_results > 0

TotalVisits ==
    visits["search"] + visits["filter"] + visits["summarize"] + visits["format"]
      + visits["error"]

\* C1: search_retry_count and summary_retry_count never decrease from one
\* state to the next, and in every reachable state search_retry_count <= 3
\* and summary_retry_count <= 2.
C1_RetryCountersBounded ==
    /\ [](/\ state.search_retry_count \in 0..SearchRetryLimit
          /\ state.summary_retry_count \in 0..SummaryRetryLimit)
    /\ [][/\ state'.search_retry_count >= state.search_retry_count
          /\ state'.summary_retry_count >= state.summary_retry_count]_vars

\* both counters stand at their bounds
C1_Witness ==
    /\ state.search_retry_count = SearchRetryLimit
    /\ state.summary_retry_count = SummaryRetryLimit

\* C2: a run executes at most 50 steps, whatever the provider and the
\* model return; once 50 steps have executed the loop is left.
C2_AtMostFiftySteps ==
    /\ TotalVisits <= max_steps
    /\ step_count = TotalVisits
    /\ (step_count >= max_steps => ~Looping)

\* a run cut off by the ceiling: 50 steps executed, the next node not "end"
C2_Witness ==
    /\ phase = "returned"
    /\ TotalVisits = max_steps
    /\ current_node # "end"

\* C3 as claimed: every run started with valid input ends by executing
\* Format or Degrade, is never stopped by the step ceiling, and returns a
\* non-empty final_report.
C3_ValidRunEndsWithReport ==
    (phase = "returned" /\ ValidInput) =>
        /\ current_node = "end"
        /\ last_node \in {"format", "error"}
        /\ ~state.logs.warning
        /\ state.final_report.kind # "empty"

\* C4: after Format or Degrade the next node is "end", no decision is
\* evaluated and no further step executes; "end" is entered from no other
\* node.
C4_FormatAndErrorAbsorbing ==
    /\ [](/\ last_node \in {"format", "error"} =>
                (current_node = "end" /\ guards = <<>>)
          /\ current_node = "end" => last_node \in {"format", "error"})
    /\ [][(last_node \in {"format", "error"}) =>
             (UNCHANGED <<current_node, step_count, last_node, visits>>)]_vars

\* Format has executed and the driver stands at "end"
C4_Witness ==
    /\ last_node = "format"
    /\ current_node = "end"
    /\ phase = "returned"

\* an iteration that ran Filter and found fewer than 3 filtered results
InsufficiencyEpisode ==
    /\ step_count' = step_count + 1
    /\ last_node' = "filter"
    /\ Len(state'.filtered_results) < MinFilteredCount

\* C5: search_expanded turns true at most once and max_results is doubled at
\* most once; the first insufficiency episode expands, and every later one
\* (it finds search_expanded true) lowers the filter threshold, sets
\* filter_lowered and goes back to Filter; no step both expands and lowers.
C5_ExpandAtMostOnce ==
    [][/\ state.search_expanded =>
            (state'.search_expanded /\ state'.max_results = state.max_results)
       /\ state'.max_results =
            IF state'.search_expanded /\ ~state.search_expanded
            THEN 2 * state.max_results ELSE state.max_results
       /\ (~state.search_expanded /\ InsufficiencyEpisode) =>
            (state'.search_expanded /\ ~state'.filter_lowered)
       /\ (state.search_expanded /\ InsufficiencyEpisode) =>
            /\ state'.filter_threshold = state.filter_threshold + 1
            /\ state'.filter_lowered
            /\ current_node' = "filter"
       /\ ~(/\ state'.search_expanded # state.search_expanded
            /\ state'.filter_threshold # state.filter_threshold)]_vars

\* the run has expanded once and has since lowered the threshold twice
C5_Witness ==
    /\ state.search_expanded
    /\ state.max_results = 2 * DefaultMaxResults
    /\ state.filter_lowered
    /\ state.filter_threshold = 2

\* C6 as claimed: lower_filter_threshold is applied at most once in a run.
C6_LoweredAtMostOnce == state.filter_threshold <= 1

\* C7: once Summarize has executed, quality_score lies in [0,1], that is in
\* 0..10 tenths, on the success, empty-input and failure paths alike.
C7_QualityScoreInRange ==
    visits["summarize"] > 0 => state.quality_score \in 0..10

\* Summarize has produced the highest score
C7_Witness ==
    /\ visits["summarize"] > 0
    /\ state.summary.kind = "text"
    /\ state.quality_score = 10

\* C8 as claimed: an input error fails fast: no Search executes, no retry
\* counter moves and no Degrade report is produced for it.
C8_InputErrorFailsFast ==
    ~ValidInput =>
        /\ visits["search"] = 0
        /\ state.search_retry_count = 0
        /\ state.final_report.kind # "failure"

\* C9: the driver enters Degrade only right after a Search that left
\* search_status = failed with search_retry_count = 3, and the report
\* Degrade writes shows the recorded error, never the generic message.
C9_DegradeOnlyAfterExhaustedRetries ==
    /\ current_node = "error" =>
          /\ last_node = "search"
          /\ state.search_status = "failed"
          /\ state.search_retry_count = SearchRetryLimit
          /\ state.error # NoError
    /\ last_node = "error" =>
          /\ state.search_status = "failed"
          /\ state.search_retry_count = SearchRetryLimit
          /\ state.error # NoError
          /\ state.final_report.kind = "failure"
          /\ state.final_report.error_text = state.error

\* Degrade has written its report after a provider exception
C9_Witness ==
    /\ last_node = "error"
    /\ ValidInput
    /\ state.final_report.error_text = "search_exception"

\* C10 as claimed: when every Search returns an empty result, Search has
\* executed exactly 3 times when Degrade is entered.
C10_DegradeAfterThirdAttempt ==
    (all_empty /\ current_node = "error") => visits["search"] = 3

\* C10 as amended: when every Search returns an empty result, the run
\* searches again after each of the first 3 failures and enters Degrade right
\* after the 4th, and the report holds the failure banner and the error.
C10_DegradeAfterFourthAttempt ==
    /\ (all_empty /\ visits["search"] \in 1..SearchRetryLimit) =>
          current_node = "search"
    /\ (all_empty /\ current_node = "error") =>
          (visits["search"] = SearchRetryLimit + 1 /\ last_node = "search")
    /\ (all_empty /\ last_node = "error") =>
          /\ visits["search"] = SearchRetryLimit + 1
          /\ state.final_report.kind = "failure"
          /\ state.final_report.error_text = "search_empty"
          /\ state.error = "search_empty"

\* every Search returned an empty list and Degrade has written its report
C10_Witness ==
    /\ all_empty
    /\ last_node = "error"
    /\ visits["search"] = SearchRetryLimit + 1
    /\ visits["error"] = 1

\* an iteration of the driver that ran Search
SearchExecutes == phase = "running" /\ visits'["search"] = visits["search"] + 1

\* C11: if the first n Search calls fail (1 <= n <= 3) and the next succeeds,
\* the run sleeps 2^k seconds before the call made with search_retry_count = k
\* (2 before attempt 2, 4 before attempt 3, 8 before attempt 4), does not
\* sleep before attempt 1, and after the successful call search_status is
\* success and search_retry_count = n.
C11_BackoffBeforeRetries ==
    /\ [][SearchExecutes =>
            /\ slept' = IF state.search_retry_count = 0 THEN 0
                        ELSE 2 ^ state.search_retry_count
            /\ ~state.search_expanded =>
                  /\ state.search_retry_count = visits["search"]
                  /\ slept' = IF visits["search"] = 0 THEN 0 ELSE 2 ^ visits["search"]]_vars
    /\ []((/\ phase = "running"
           /\ last_node = "search"
           /\ state.search_status = "success"
           /\ ~state.search_expanded) =>
            /\ state.search_retry_count = visits["search"] - 1
            /\ state.search_retry_count <= SearchRetryLimit
            /\ slept = IF visits["search"] = 1 THEN 0 ELSE 2 ^ (visits["search"] - 1))

\* two failures, then the third call succeeds after sleeping 4 seconds
C11_Witness ==
    /\ phase = "running"
    /\ last_node = "search"
    /\ visits["search"] = 3
    /\ state.search_status = "success"
    /\ state.search_retry_count = 2
    /\ slept = 4

\* only search, filter and summarize have run, once each
OnePass(n) ==
    /\ phase \in {"running", "returned"}
    /\ step_count = n
    /\ visits["search"] = 1
    /\ visits["filter"] = (IF n >= 2 THEN 1 ELSE 0)
    /\ visits["summarize"] = (IF n >= 3 THEN 1 ELSE 0)
    /\ visits["error"] = 0

\* C12: if the first Search succeeds, the first Filter yields at least 3
\* items and the first Summarize scores at least 0.7, the steps executed are
\* exactly search, filter, summarize, format, then end, with both retry
\* counters 0 and neither escalation flag set.
C12_HappyPath ==
    /\ (OnePass(1) /\ state.search_status = "success") =>
          (last_node = "search" /\ current_node = "filter")
    /\ (OnePass(2) /\ Len(state.filtered_results) >= MinFilteredCount) =>
          (last_node = "filter" /\ current_node = "summarize")
    /\ (OnePass(3) /\ state.quality_score >= MinQualityTenths) =>
          (last_node = "summarize" /\ current_node = "format")
    /\ (OnePass(4) /\ state.quality_score >= MinQualityTenths) =>
          /\ last_node = "format"
          /\ visits["format"] = 1
          /\ current_node = "end"
    /\ (OnePass(4) /\ visits["format"] = 1) =>
          /\ state.search_retry_count = 0
          /\ state.summary_retry_count = 0
          /\ ~state.search_expanded
          /\ ~state.filter_lowered
          /\ state.final_report.kind = "report"

\* the four-step run whose summary scores exactly 0.7
C12_Witness ==
    /\ phase = "returned"
    /\ OnePass(4)
    /\ visits["format"] = 1
    /\ state.quality_score = MinQualityTenths

\* C13: when Filter yields fewer than 3 items while search_expanded is
\* false, the decisions double max_results, set search_expanded and select
\* Search, leaving filter_threshold and filter_lowered unchanged.
C13_FirstInsufficiencyExpands ==
    [][(phase = "running" /\ ~state.search_expanded /\ InsufficiencyEpisode) =>
          /\ state'.max_results = 2 * state.max_results
          /\ state'.search_expanded
          /\ current_node' = "search"
          /\ guards' = <<"after_filter", "expand">>
          /\ state'.filter_threshold = state.filter_threshold
          /\ state'.filter_lowered = state.filter_lowered]_vars

\* Filter has just come up short for the first time
C13_Witness ==
    /\ last_node = "filter"
    /\ current_node = "search"
    /\ Len(state.filtered_results) = 2
    /\ state.search_expanded
    /\ state.max_results = 2 * DefaultMaxResults
    /\ ~state.filter_lowered

\* C14: when Filter yields fewer than 3 items while search_expanded is
\* already true, the decisions multiply filter_threshold by 0.8, set
\* filter_lowered and select Filter, leaving max_results and search_results
\* unchanged.
C14_LaterInsufficiencyLowers ==
    [][(phase = "running" /\ state.search_expanded /\ InsufficiencyEpisode) =>
          /\ state'.filter_threshold = state.filter_threshold + 1
          /\ state'.filter_lowered
          /\ current_node' = "filter"
          /\ guards' = <<"after_filter", "expand">>
          /\ state'.max_results = state.max_results
          /\ state'.search_results = state.search_results]_vars

\* Filter has come up short after the expansion, for the first time
C14_Witness ==
    /\ last_node = "filter"
    /\ current_node = "filter"
    /\ state.search_expanded
    /\ state.filter_lowered
    /\ state.filter_threshold = 1
    /\ Len(state.filtered_results) < MinFilteredCount

\* an iteration of the driver that ran Summarize
SummarizeExecutes == phase = "running" /\ visits'["summarize"] = visits["summarize"] + 1

\* C15: after a Summarize scoring below 0.7 the regenerate decision adds one
\* to summary_retry_count and runs Summarize again while the counter is below
\* 2, and selects Format once it is 2; a low score never leads to Degrade, and
\* Summarize executes at most 3 times in a run.
C15_RegenerateThenFormat ==
    /\ [][SummarizeExecutes =>
            /\ current_node' \in {"summarize", "format"}
            /\ state'.quality_score >= MinQualityTenths =>
                  /\ current_node' = "format"
                  /\ state'.summary_retry_count = state.summary_retry_count
            /\ (/\ state'.quality_score < MinQualityTenths
                /\ state.summary_retry_count < SummaryRetryLimit) =>
                  /\ current_node' = "summarize"
                  /\ state'.summary_retry_count = state.summary_retry_count + 1
            /\ (/\ state'.quality_score < MinQualityTenths
                /\ state.summary_retry_count = SummaryRetryLimit) =>
                  /\ current_node' = "format"
                  /\ state'.summary_retry_count = SummaryRetryLimit]_vars
    /\ [](visits["summarize"] <= SummaryRetryLimit + 1)

\* the third Summarize still scores low and the run goes on to Format
C15_Witness ==
    /\ last_node = "summarize"
    /\ visits["summarize"] = SummaryRetryLimit + 1
    /\ state.quality_score < MinQualityTenths
    /\ current_node = "format"

\* C16: when the model call of Filter returns a failure or raises,
\* filtered_results becomes exactly search_results, error is left as it
\* was, and the run goes on with the after-filter decision, never to
\* Degrade.
C16_FilterFailsOpen ==
    [][(phase = "running" /\ filter_faults' = filter_faults + 1) =>
          /\ last_node' = "filter"
          /\ state'.filtered_results = state.search_results
          /\ state'.search_results = state.search_results
          /\ state'.error = state.error
          /\ guards'[1] = "after_filter"
          /\ current_node' \in {"summarize", "search", "filter"}]_vars

\* the model call failed on two search results, which are all kept
C16_Witness ==
    /\ phase = "running"
    /\ last_node = "filter"
    /\ filter_faults = 1
    /\ Len(state.search_results) = 2
    /\ state.filtered_results = state.search_results
    /\ state.filter_threshold = 0

RECURSIVE IsSubsequence(_, _)
\* a can be obtained from b by deleting elements
IsSubsequence(a, b) ==
    IF Len(a) = 0 THEN TRUE
    ELSE IF Len(b) = 0 THEN FALSE
    ELSE IF Head(a) = Head(b) THEN IsSubsequence(Tail(a), Tail(b))
    ELSE IsSubsequence(a, Tail(b))

\* C17: after every Filter execution filtered_results is a subsequence of
\* search_results: each search result appears at most once, the results keep
\* their order, and Len(filtered_results) <= Len(search_results), whatever
\* the model answered.
C17_FilteredIsSubsequence ==
    last_node = "filter" =>
        /\ IsSubsequence(state.filtered_results, state.search_results)
        /\ Len(state.filtered_results) <= Len(state.search_results)

\* C18: immediately after every Filter execution, every element of
\* filtered_results is an element of the search_results held at that moment,
\* whatever the model answered and also when the model call failed.
C18_FilteredFromSearchResults ==
    last_node = "filter" =>
        \A i \in 1..Len(state.filtered_results) :
            \E j \in 1..Len(state.search_results) :
                state.filtered_results[i] = state.search_results[j]

\* the answer named the third of three results first, then another one
C18_Witness ==
    /\ phase = "unit"
    /\ last_node = "filter"
    /\ filter_faults = 0
    /\ Len(state.search_results) = 3
    /\ Len(state.filtered_results) = 2
    /\ state.filtered_results[1] = state.search_results[3]

\* a call of format_node
FormatExecutes == visits'["format"] = visits["format"] + 1

\* C19: Format builds the reference list of the report from filtered_results
\* alone: with N filtered results the list has exactly N entries, entry i
\* being the i-th filtered result, and Format changes no field of the state
\* other than current_step, final_report and logs.
C19_FormatListsFilteredResults ==
    [][FormatExecutes =>
          /\ Len(state'.final_report.refs) = Len(state.filtered_results)
          /\ \A i \in 1..Len(state.filtered_results) :
                state'.final_report.refs[i] = state.filtered_results[i]
          /\ state'.final_report.source_count = Len(state.filtered_results)
          /\ state'.current_step = "format"
          /\ [state' EXCEPT !.current_step = state.current_step,
                            !.final_report = state.final_report,
                            !.logs = state.logs] = state]_vars

\* a report listing two results where the search had found three
C19_Witness ==
    /\ phase = "unit"
    /\ last_node = "format"
    /\ Len(state.search_results) = 3
    /\ Len(state.filtered_results) = 2
    /\ state.final_report.refs = state.filtered_results
    /\ state.final_report.kind = "report"

\* C20: Search maps the outcome of the provider call: an empty list, None or
\* an exception each set search_status to failed and record error; a
\* non-empty list sets search_status to success and replaces search_results
\* with that list. The exception is not propagated: the iteration completes
\* and the after-search decision selects the next node.
C20_SearchOutcomeMapping ==
    [][SearchExecutes =>
          /\ last_node' = "search"
          /\ step_count' = step_count + 1
          /\ guards'[1] = "after_search"
          /\ (last_search'.kind = "exception") =>
                /\ state'.search_status = "failed"
                /\ state'.error = "search_exception"
                /\ state'.search_results = state.search_results
                /\ current_node' \in {"search", "error"}
          /\ (last_search'.kind = "none" \/
                (last_search'.kind = "items" /\ Len(last_search'.items) = 0)) =>
                /\ state'.search_status = "failed"
                /\ state'.error = "search_empty"
                /\ state'.search_results = state.search_results
                /\ current_node' \in {"search", "error"}
          /\ (last_search'.kind = "items" /\ Len(last_search'.items) > 0) =>
                /\ state'.search_status = "success"
                /\ state'.search_results = last_search'.items
                /\ state'.error = state.error
                /\ current_node' = "filter"]_vars

\* the search repeated after the expansion found a single result, which is
\* now all of search_results
C20_Witness ==
    /\ phase = "running"
    /\ last_node = "search"
    /\ state.search_expanded
    /\ state.search_status = "success"
    /\ last_search.kind = "items"
    /\ Len(last_search.items) = 1
    /\ state.search_results = last_search.items

\* C21: a backoff wait occurs only before a retried Search, that is a Search
\* execution that immediately follows a failed Search; the first Search and
\* the Search repeated by the expansion after a successful Search do not
\* wait.
C21_BackoffOnlyBeforeRetry ==
    [][SearchExecutes =>
          (slept' > 0 => (last_node = "search" /\ state.search_status = "failed"))]_vars

\* a is an initial segment of b
IsPrefix(a, b) == Len(a) <= Len(b) /\ SubSeq(b, 1, Len(a)) = a

\* C22: logs is append-only: for every node call, every helper the decisions
\* call and every entry the driver adds, the list before the call is a prefix
\* of the list after it, and its length never decreases.
C22_LogAppendOnly ==
    [][/\ IsPrefix(state.logs.entries, state'.logs.entries)
       /\ Len(state'.logs.entries) >= Len(state.logs.entries)
       /\ state'.logs.count >= state.logs.count]_vars

\* the four nodes have run and logs still begins with the first entry of
\* search_node
C22_Witness ==
    /\ phase = "unit"
    /\ last_node = "format"
    /\ Len(state.logs.entries) > 8
    /\ state.logs.entries[1] = "enter_search"
    /\ state.logs.entries[Len(state.logs.entries)] = "report_done"

\* C23: increment_search_retry fails or does nothing when search_retry_count
\* is already 3, and increment_summary_retry likewise at 2: however often the
\* helpers are called, in any state, no counter passes its bound.
C23_HelpersKeepCountersBounded ==
    phase = "helpers" =>
        /\ state.search_retry_count <= SearchRetryLimit
        /\ state.summary_retry_count <= SummaryRetryLimit

\* C24: expand_search is idempotent: it takes effect the first time only, so
\* once search_expanded is set a further call leaves max_results and the flag
\* as they are (max_results = 2 x its initial value).
C24_ExpandSearchIdempotent ==
    [][(phase = "helpers" /\ state.search_expanded) =>
          /\ state'.max_results = state.max_results
          /\ state'.search_expanded]_vars

\* 50 steps have executed and the next node is not "end"
CeilingReached == step_count = max_steps /\ current_node # "end"

\* C25: when 50 steps have executed without reaching "end", the loop stops
\* without raising, a warning is appended to logs, no 51st step executes,
\* and the state is returned as it is at that moment (final_report may
\* still be empty).
C25_CeilingStopsWithWarning ==
    /\ [][(phase = "running" /\ CeilingReached) =>
            /\ phase' = "returned"
            /\ step_count' = step_count
            /\ visits' = visits
            /\ current_node' = current_node
            /\ state'.logs.warning
            /\ state'.logs.count > state.logs.count
            /\ [state' EXCEPT !.logs = state.logs] = state]_vars
    /\ []((phase = "returned" /\ CeilingReached) => state.logs.warning)

\* a run returned by the ceiling while Filter was repeating, with no report
C25_Witness ==
    /\ phase = "returned"
    /\ CeilingReached
    /\ state.logs.warning
    /\ state.final_report = EmptyReport

\* the topic string occurs in the summary of s
TopicOccurs(s) == s.topic = "" \/ s.summary.has_topic

\* C26: after a successful Summarize, quality_score in tenths is
\* min(10, L + S + R): L = 5 for a length >= 300, 3 for >= 200, 1 for >= 100,
\* else 0; S = 3 for >= 3 non-empty paragraphs, 2 for >= 2, else 0; R = 2 if
\* the topic occurs in the summary, else 0.  Hence a summary shorter than 200
\* characters never reaches the acceptance threshold 0.7.
C26_QualityScoreFormula ==
    (last_node = "summarize" /\ state.summary.kind = "text") =>
        LET L == IF state.summary.length >= 300 THEN 5
                 ELSE IF state.summary.length >= 200 THEN 3
                 ELSE IF state.summary.length >= 100 THEN 1 ELSE 0
            S == IF state.summary.paragraphs >= 3 THEN 3
                 ELSE IF state.summary.paragraphs >= 2 THEN 2 ELSE 0
            R == IF TopicOccurs(state) THEN 2 ELSE 0
        IN  /\ state.quality_score = (IF L + S + R > 10 THEN 10 ELSE L + S + R)
            /\ state.summary.length < 200 => state.quality_score < MinQualityTenths

\* the best summary of fewer than 200 characters scores 0.6
C26_Witness ==
    /\ last_node = "summarize"
    /\ state.summary.kind = "text"
    /\ state.summary.length = 199
    /\ state.summary.paragraphs = 3
    /\ state.summary.has_topic
    /\ state.quality_score = 6

\* C27: filter_threshold never increases during a run and stays in (0,1]:
\* it starts at 0.7, no action raises it, and each lowering multiplies it by
\* 0.8; as the exponent k of 0.7 * 0.8^k: k starts at 0, never decreases,
\* grows by one per lowering and only when the decisions lower the threshold.
C27_ThresholdNonIncreasing ==
    /\ [][/\ state'.filter_threshold \in
                {state.filter_threshold, state.filter_threshold + 1}
          /\ state'.filter_threshold = state.filter_threshold + 1 =>
                /\ state.search_expanded
                /\ InsufficiencyEpisode
                /\ state'.filter_lowered]_vars
    /\ [](/\ state.filter_threshold \in 0..max_steps
          /\ visits["filter"] = 0 => state.filter_threshold = 0
          /\ state.filter_lowered <=> state.filter_threshold > 0)

\* the threshold has been lowered three times: 0.7 * 0.8^3
C27_Witness ==
    /\ phase = "running"
    /\ state.filter_threshold = 3
    /\ state.filter_lowered

\* C28: the step-ceiling warning is logged only in runs the ceiling cut off:
\* no run whose last executed step was Format or Degrade logs it, a run that
\* completes on exactly its 50th step included.
C28_WarningOnlyWhenCutOff ==
    (phase = "returned" /\ last_node \in {"format", "error"}) => ~state.logs.warning

C30_AtMostFiveSearches ==
    /\ visits["search"] <= SearchRetryLimit + 2
    /\ visits["search"] <=
          1 + state.search_retry_count + (IF state.search_expanded THEN 1 ELSE 0)

\* one call, one expansion and three retries
C30_Witness ==
    /\ visits["search"] = SearchRetryLimit + 2
    /\ state.search_expanded
    /\ state.search_retry_count = SearchRetryLimit

\* an iteration of the driver that ran Filter
FilterExecutes == phase = "running" /\ visits'["filter"] = visits["filter"] + 1

\* C31: the run moves through its phases in one direction: once Summarize
\* has executed, neither Search nor Filter executes again, and max_results,
\* search_results, filtered_results, search_retry_count, search_expanded and
\* filter_lowered stay as they are.
C31_NoReturnAfterSummarize ==
    [][visits["summarize"] > 0 =>
          /\ visits'["search"] = visits["search"]
          /\ visits'["filter"] = visits["filter"]
          /\ current_node' \in {"summarize", "format", "end"}
          /\ state'.max_results = state.max_results
          /\ state'.search_results = state.search_results
          /\ state'.filtered_results = state.filtered_results
          /\ state'.search_retry_count = state.search_retry_count
          /\ state'.search_expanded = state.search_expanded
          /\ state'.filter_lowered = state.filter_lowered]_vars

\* Summarize ran three times and Format followed
C31_Witness ==
    /\ phase = "returned"
    /\ visits["summarize"] = SummaryRetryLimit + 1
    /\ last_node = "format"
    /\ state.search_expanded

\* C32: under the driver the nodes run on populated input only: Filter
\* executes only with search_status = success and search_results non-empty,
\* Summarize only with at least 3 filtered_results, so neither the
\* no-search-results branch of Filter nor the no-information placeholder of
\* Summarize is taken in a run.
C32_NodesRunOnPopulatedInput ==
    /\ [][/\ FilterExecutes =>
                /\ state.search_status = "success"
                /\ Len(state.search_results) > 0
          /\ SummarizeExecutes =>
                /\ Len(state.filtered_results) >= MinFilteredCount
                /\ state'.summary.kind # "no_information"]_vars
    /\ [](phase # "created" => state.summary.kind # "no_information")

\* Summarize has run on exactly three filtered results
C32_Witness ==
    /\ phase = "running"
    /\ last_node = "summarize"
    /\ Len(state.filtered_results) = MinFilteredCount
    /\ state.search_status = "success"

\* C33: error is never cleared: once a failed Search has set it, it stays
\* set, so a run that recovers and ends in Format still returns a state with
\* error present; error is absent only if no Search has failed.
C33_ErrorNeverCleared ==
    [][phase = "running" =>
          /\ state.error # NoError => state'.error = state.error \/
                (SearchExecutes /\ state'.search_status = "failed"
                    /\ state'.error # NoError)
          /\ (SearchExecutes /\ state'.search_status = "failed") =>
                state'.error # NoError
          /\ (state.error = NoError /\ state'.error # NoError) =>
                (SearchExecutes /\ state'.search_status = "failed")]_vars

\* a run that failed once, recovered and ended in Format, error still set
C33_Witness ==
    /\ phase = "returned"
    /\ last_node = "format"
    /\ state.search_status = "success"
    /\ state.search_retry_count = 1
    /\ state.error # NoError

\* the fields a failed Search may change, set back to their values in s
SearchFrame(after, s) ==
    [after EXCEPT !.current_step = s.current_step,
                  !.search_status = s.search_status,
                  !.error = s.error,
                  !.logs = s.logs]

\* C34: a failed Search (empty, None or exception) leaves search_results,
\* filtered_results, max_results, both retry counters, both flags, summary,
\* quality_score and final_report unchanged: it changes only current_step,
\* search_status, error and logs; the results found before an expansion
\* survive a failed expanded Search and appear in the Degrade report.
C34_FailedSearchFrame ==
    /\ [](current_node = "search" =>
            \A results \in search_web(state.topic, state.max_results) :
                (results.kind # "items" \/ Len(results.items) = 0) =>
                    /\ SearchFrame(search_node(state, results), state) = state
                    /\ search_node(state, results).search_status = "failed")
    /\ [][(SearchExecutes /\ state'.search_status = "failed") =>
            /\ state'.search_results = state.search_results
            /\ state'.filtered_results = state.filtered_results
            /\ state'.max_results = state.max_results
            /\ state'.summary_retry_count = state.summary_retry_count
            /\ state'.search_expanded = state.search_expanded
            /\ state'.filter_lowered = state.filter_lowered
            /\ state'.final_report = state.final_report]_vars
    /\ [](last_node = "error" =>
            state.final_report.refs =
                SubSeq(state.search_results, 1,
                       IF Len(state.search_results) < ErrorReportItems
                       THEN Len(state.search_results) ELSE ErrorReportItems))

\* the expanded Search kept failing and the Degrade report lists the two
\* results found before the expansion
C34_Witness ==
    /\ last_node = "error"
    /\ state.search_expanded
    /\ state.search_status = "failed"
    /\ Len(state.search_results) = 2
    /\ state.final_report.kind = "failure"
    /\ state.final_report.refs = state.search_results

====
